---- MODULE Spec2Model ----
(***************************************************************************)
(* annona: the layer/arc graph of a supply chain (src/annona/chain.py),    *)
(* the constraints each layer generates, and the clean/dirty build-and-    *)
(* solve lifecycle of SupplyChain.                                         *)
(*                                                                         *)
(* Python objects are modelled by identity: a layer is an integer id, an   *)
(* arc array (the numpy array of LpVariables made by connect_layers) is a  *)
(* record carrying its shape and the identity of its allocation: the two   *)
(* layers it was made for (its variables are named after them) and a       *)
(* number gen telling it from the other live arrays of that pair.  An      *)
(* attribute that may be missing (self.prob, layer.in_arcs, layer.pmax)    *)
(* is a sequence of length 0 (missing) or 1 (set).                         *)
(***************************************************************************)
EXTENDS Integers, Sequences, FiniteSets, TLC

VARIABLES
    layer,   \* layer id -> the fields of that ChainLayer object
    chain,   \* chain id -> the fields of that SupplyChain object
    reads,   \* chain id -> the get_cost calls that returned, one after the other,
             \* since the last other call on the chain
    solves,  \* chain id -> the solver invocations made by these calls
    last     \* the last call made: operation, arguments, exception, return value

vars == <<layer, chain, reads, solves, last>>

----------------------------------------------------------------------------
(* Bounds of the model.                                                    *)

FlowMax == 2      \* flow variables range over 0..FlowMax when the solver is modelled
MaxGen == 2       \* arc arrays of one pair of layers alive at the same time
MaxReads == 2     \* consecutive get_cost calls on an unmodified chain that are counted

----------------------------------------------------------------------------
(* Values.                                                                 *)

\* Python None as a per-node bound (tutorial.py: TransshipmentLayer(.., [None, None]))
None == -1
\* np.inf as a cost cell (connect_layers docstring)
Inf == 1000000
\* the literal 10000000000000000 of get_link_constraints, scaled to TLC's integers
BigM == 100000
\* pulp.LpStatusOptimal, LpStatusInfeasible, LpStatusUnbounded, LpStatusUndefined
LpStatusOptimal == 1
LpStatusInfeasible == -1
LpStatusUnbounded == -2
LpStatusUndefined == -3
\* float nan / inf as an objective value
NonFinite == -1

Unset == <<>>
Some(v) == <<v>>
IsSet(a) == Len(a) = 1
Get(a) == a[1]

NoExc == "none"

\* dict helpers
MapPut(f, k, v) == [x \in (DOMAIN f) \cup {k} |-> IF x = k THEN v ELSE f[x]]
MapDel(f, k) == [x \in (DOMAIN f) \ {k} |-> f[x]]
EmptyMap == [x \in {} |-> 0]

Min(S) == CHOOSE x \in S : \A y \in S : x <= y

RECURSIVE SumSeq(_)
SumSeq(s) == IF s = <<>> THEN 0 ELSE Head(s) + SumSeq(Tail(s))

\* the concatenation of f(i) for i = lo..hi
RECURSIVE Concat(_, _, _)
Concat(f(_), lo, hi) == IF lo > hi THEN <<>> ELSE f(lo) \o Concat(f, lo + 1, hi)

----------------------------------------------------------------------------
(* Linear expressions and constraints (pulp.LpAffineExpression,            *)
(* pulp.LpConstraint).  A variable is the flow variable "x" of cell (i, j)  *)
(* of an arc array, or the open indicator "y" of node i of layer fr.  An   *)
(* expression is a sequence of terms [v, c] and a constant k.              *)

XVar(b, i, j) == [t |-> "x", fr |-> b.fr, to |-> b.to, gen |-> b.gen, i |-> i, j |-> j]
YVar(l, i) == [t |-> "y", fr |-> l, to |-> 0, gen |-> 0, i |-> i, j |-> 0]
Term(v, c) == [v |-> v, c |-> c]
Expr(terms, k) == [terms |-> terms, k |-> k]
ZeroExpr == Expr(<<>>, 0)
AddExpr(e1, e2) == Expr(e1.terms \o e2.terms, e1.k + e2.k)
NegExpr(e) == Expr([n \in 1..Len(e.terms) |-> Term(e.terms[n].v, 0 - e.terms[n].c)], 0 - e.k)
Cons(name, e, sense, rhs) == [name |-> name, e |-> e, sense |-> sense, rhs |-> rhs]

\* an entry of layer.ys: an LpVariable (fixed_locs = False) or a number
YIsVar(l, i) == [var |-> TRUE, val |-> 0, v |-> YVar(l, i)]
YConst(n) == [var |-> FALSE, val |-> n, v |-> YVar(0, 0)]

----------------------------------------------------------------------------
(* ChainLayer.__init__ and SupplyChain.__init__                            *)

\* ChainLayer.__init__(name, constraints, fixed_locs, pmin, pmax, fixed_costs) for
\* the object with identity l; pmax and fixed_costs are Unset for the default None
NewLayer(cls, l, name, constraints, fixed_locs, pmin, pmax, fixed_costs) ==
    LET size == Len(constraints) IN
    [ cls |-> cls,
      name |-> name,
      constraints |-> constraints,
      size |-> size,
      chain |-> Unset,
      fixed_locs |-> fixed_locs,
      pmin |-> IF fixed_locs THEN Unset ELSE Some(pmin),
      pmax |-> IF fixed_locs THEN Unset
               ELSE IF pmax = Unset THEN Some(size) ELSE pmax,
      ys |-> IF fixed_locs THEN [i \in 1..size |-> YConst(1)]
             ELSE [i \in 1..size |-> YIsVar(l, i)],
      fixed_costs |-> IF fixed_costs = Unset THEN [i \in 1..size |-> 0]
                      ELSE Get(fixed_costs),
      in_arcs |-> Unset,
      out_arcs |-> Unset ]

\* SupplyChain.__init__(name): self.prob is not assigned here, only prob_seed
NewChain(name) ==
    [ name |-> name,
      network |-> EmptyMap,
      clean |-> TRUE,
      variables |-> EmptyMap,
      fixed_costs |-> EmptyMap,
      prob |-> Unset ]

Layers == DOMAIN layer
Chains == DOMAIN chain

\* the record of a call: l and to are its layer arguments (0: none)
Call(op, c, l, to, exc, ret) ==
    [op |-> op, chain |-> c, layer |-> l, to |-> to, exc |-> exc, ret |-> ret]

----------------------------------------------------------------------------
(* ChainLayer methods used by the chain's graph operations.                *)

\* ChainLayer.get_fixed_costs: self.fixed_costs.dot(self.ys)
get_fixed_costs(l) ==
    LET L == layer[l]
        isv(i) == L.ys[i].var
        terms == Concat(LAMBDA i : IF isv(i) THEN <<Term(L.ys[i].v, L.fixed_costs[i])>>
                                   ELSE <<>>, 1, L.size)
        k == SumSeq([i \in 1..L.size |-> IF isv(i) THEN 0
                                         ELSE L.fixed_costs[i] * L.ys[i].val])
    IN Expr(terms, k)

\* ChainLayer._attach_to_chain
attach_to_chain(lay, l, c) == [lay EXCEPT ![l].chain = Some(c)]

\* ChainLayer.add_out_arcs / add_in_arcs: the stored reference is overwritten
add_out_arcs(lay, l, arcs) == [lay EXCEPT ![l].out_arcs = Some(arcs)]
add_in_arcs(lay, l, arcs) == [lay EXCEPT ![l].in_arcs = Some(arcs)]

----------------------------------------------------------------------------
(* SupplyChain: graph mutation.                                            *)

\* the chains in S are modified: their counters of consecutive reads restart
Touched(S) ==
    /\ reads' = [c \in Chains |-> IF c \in S THEN 0 ELSE reads[c]]
    /\ solves' = [c \in Chains |-> IF c \in S THEN 0 ELSE solves[c]]

\* add_layer that records no fixed-cost term
add_layerWithoutFixedCosts(c, l) ==
    LET C == chain[c] IN
    /\ layer' = attach_to_chain(layer, l, c)
    /\ chain' = [chain EXCEPT ![c] =
            [C EXCEPT !.network = MapPut(C.network, l, EmptyMap),
                      !.variables = MapPut(C.variables, l, EmptyMap),
                      !.clean = FALSE]]
    /\ Touched({c})
    /\ last' = Call("add_layer", c, l, 0, NoExc, Unset)

\* SupplyChain.add_layer
add_layer(c, l) ==
    LET C == chain[c] IN
    /\ layer' = attach_to_chain(layer, l, c)
    /\ chain' = [chain EXCEPT ![c] =
            [C EXCEPT !.network = MapPut(C.network, l, EmptyMap),
                      !.variables = MapPut(C.variables, l, EmptyMap),
                      !.fixed_costs = MapPut(C.fixed_costs, l, get_fixed_costs(l)),
                      !.clean = FALSE]]
    /\ Touched({c})
    /\ last' = Call("add_layer", c, l, 0, NoExc, Unset)

\* remove_layer without its two for loops
PurgeToNothing(m, l) == m

\* the for loops of remove_layer: the entry of layer l is dropped from every inner dict
PurgeTo(m, l) == [fr \in DOMAIN m |-> MapDel(m[fr], l)]

\* the try block of remove_layer: the statements before the first KeyError take effect
RemoveFrom(C, l) ==
    IF l \notin DOMAIN C.network THEN C
    ELSE IF l \notin DOMAIN C.variables
         THEN [C EXCEPT !.network = MapDel(C.network, l)]
    ELSE IF l \notin DOMAIN C.fixed_costs
         THEN [C EXCEPT !.network = MapDel(C.network, l),
                        !.variables = MapDel(C.variables, l)]
    ELSE [C EXCEPT !.network = PurgeTo(MapDel(C.network, l), l),
                   !.variables = PurgeTo(MapDel(C.variables, l), l),
                   !.fixed_costs = MapDel(C.fixed_costs, l)]

\* SupplyChain.remove_layer
remove_layer(c, l) ==
    /\ chain' = [chain EXCEPT ![c] = [RemoveFrom(chain[c], l) EXCEPT !.clean = FALSE]]
    /\ Touched({c})
    /\ last' = Call("remove_layer", c, l, 0, NoExc, Unset)
    /\ UNCHANGED layer

\* the arc arrays some object still refers to once connect_layers(fr, to) on chain c
\* has overwritten fr.out_arcs, to.in_arcs and the chain's entry of (fr, to)
LiveBlocks(c, fr, to) ==
    {Get(layer[l].in_arcs) : l \in {x \in Layers \ {to} : IsSet(layer[x].in_arcs)}}
    \cup {Get(layer[l].out_arcs) : l \in {x \in Layers \ {fr} : IsSet(layer[x].out_arcs)}}
    \cup UNION {UNION {{chain[d].variables[f][t] :
                            t \in {x \in DOMAIN chain[d].variables[f] :
                                      ~(d = c /\ f = fr /\ x = to)}}
                       : f \in DOMAIN chain[d].variables} : d \in Chains}

FreeGens(c, fr, to) ==
    (1..MaxGen) \ {b.gen : b \in {x \in LiveBlocks(c, fr, to) : x.fr = fr /\ x.to = to}}

\* the array of LpVariables connect_layers allocates: costs.shape fresh variables
NewArcs(c, fr, to, costs) ==
    [fr |-> fr, to |-> to, gen |-> Min(FreeGens(c, fr, to)),
     rows |-> Len(costs), cols |-> Len(costs[1])]

\* np.sum(costs * arcs)
CostExpr(costs, arcs) ==
    Expr(Concat(LAMBDA i : [j \in 1..arcs.cols |-> Term(XVar(arcs, i, j), costs[i][j])],
                1, arcs.rows), 0)

\* connect_layers without its second check
ConnectCheckFromOnly(c, fr, to) ==
    IF fr \notin DOMAIN chain[c].network THEN "LayerNotAttached" ELSE NoExc

\* which of the two attachment checks of connect_layers fails, if any
ConnectCheck(c, fr, to) ==
    IF fr \notin DOMAIN chain[c].network THEN "LayerNotAttached"
    ELSE IF to \notin DOMAIN chain[c].network THEN "LayerNotAttached"
    ELSE NoExc

\* SupplyChain.connect_layers(fr, to, costs) with dist = None
connect_layers(c, fr, to, costs) ==
    LET C == chain[c]
        exc == ConnectCheck(c, fr, to)
        arcs == NewArcs(c, fr, to, costs)
    IN
    IF exc # NoExc
    THEN /\ last' = Call("connect_layers", c, fr, to, exc, Unset)
         /\ UNCHANGED <<layer, chain, reads, solves>>
    ELSE /\ FreeGens(c, fr, to) # {}
         /\ chain' = [chain EXCEPT ![c] =
                [C EXCEPT !.variables = MapPut(C.variables, fr,
                                               MapPut(C.variables[fr], to, arcs)),
                          !.network = MapPut(C.network, fr,
                                             MapPut(C.network[fr], to, CostExpr(costs, arcs))),
                          !.clean = FALSE]]
         /\ layer' = add_in_arcs(add_out_arcs(layer, fr, arcs), to, arcs)
         /\ Touched({c})
         /\ last' = Call("connect_layers", c, fr, to, NoExc, Unset)

----------------------------------------------------------------------------
(* Constraint generation of the layers.                                    *)

\* ChainLayer.get_input_totals: np.sum(self.in_arcs, 0), one expression per column
get_input_totals(l) ==
    LET a == Get(layer[l].in_arcs) IN
    [j \in 1..a.cols |-> Expr([i \in 1..a.rows |-> Term(XVar(a, i, j), 1)], 0)]

\* ChainLayer.get_output_totals: np.sum(self.out_arcs, 1), one expression per row
get_output_totals(l) ==
    LET a == Get(layer[l].out_arcs) IN
    [i \in 1..a.rows |-> Expr([j \in 1..a.cols |-> Term(XVar(a, i, j), 1)], 0)]

CName(l, kind, i) == [l |-> layer[l].name, kind |-> kind, i |-> i]

\* get_constraints with "<" for "!=" in its checks of the length of the totals
ConstraintsErrorUndersize(l) ==
    LET L == layer[l] IN
    CASE L.cls = "Supply" ->
            IF ~IsSet(L.out_arcs) THEN "AttributeError"
            ELSE IF Len(get_output_totals(l)) < L.size THEN "DimensionMismatch"
            ELSE NoExc
      [] L.cls = "Demand" ->
            IF ~IsSet(L.in_arcs) THEN "AttributeError"
            ELSE IF Len(get_input_totals(l)) < L.size THEN "DimensionMismatch"
            ELSE NoExc
      [] L.cls = "Transshipment" ->
            IF ~IsSet(L.in_arcs) \/ ~IsSet(L.out_arcs) THEN "AttributeError"
            ELSE IF Len(get_input_totals(l)) < Len(get_output_totals(l))
                 THEN "DimensionMismatch"
            ELSE IF Len(get_input_totals(l)) < L.size THEN "DimensionMismatch"
            ELSE NoExc

\* the exception SupplyLayer / DemandLayer / TransshipmentLayer.get_constraints raises
ConstraintsError(l) ==
    LET L == layer[l] IN
    CASE L.cls = "Supply" ->
            IF ~IsSet(L.out_arcs) THEN "AttributeError"
            ELSE IF Len(get_output_totals(l)) # L.size THEN "DimensionMismatch"
            ELSE NoExc
      [] L.cls = "Demand" ->
            IF ~IsSet(L.in_arcs) THEN "AttributeError"
            ELSE IF Len(get_input_totals(l)) # L.size THEN "DimensionMismatch"
            ELSE NoExc
      [] L.cls = "Transshipment" ->
            IF ~IsSet(L.in_arcs) \/ ~IsSet(L.out_arcs) THEN "AttributeError"
            ELSE IF Len(get_input_totals(l)) # Len(get_output_totals(l))
                 THEN "DimensionMismatch"
            ELSE IF Len(get_input_totals(l)) # L.size THEN "DimensionMismatch"
            ELSE NoExc

\* SupplyLayer.get_constraints
SupplyConstraints(l) ==
    [i \in 1..layer[l].size |->
        Cons(CName(l, "node", i), get_output_totals(l)[i], -1, layer[l].constraints[i])]

\* DemandLayer.get_constraints with sense -1 for sense 1
DemandConstraintsAtMost(l) ==
    [i \in 1..layer[l].size |->
        Cons(CName(l, "node", i), get_input_totals(l)[i], -1, layer[l].constraints[i])]

\* DemandLayer.get_constraints
DemandConstraints(l) ==
    [i \in 1..layer[l].size |->
        Cons(CName(l, "node", i), get_input_totals(l)[i], 1, layer[l].constraints[i])]

\* "if cons:" of TransshipmentLayer.get_constraints: None and 0 are both false
Truthy(cons) == cons # None /\ cons # 0

\* TransshipmentLayer.get_constraints
TransshipmentConstraints(l) ==
    LET L == layer[l] IN
    [i \in 1..L.size |->
        Cons(CName(l, "Clear", i),
             AddExpr(get_input_totals(l)[i], NegExpr(get_output_totals(l)[i])), 0, 0)]
    \o Concat(LAMBDA i : IF Truthy(L.constraints[i])
                         THEN <<Cons(CName(l, "node", i), get_input_totals(l)[i], -1,
                                     L.constraints[i])>>
                         ELSE <<>>, 1, L.size)

\* layer.get_constraints(), when it raises nothing
get_constraints(l) ==
    CASE layer[l].cls = "Supply" -> SupplyConstraints(l)
      [] layer[l].cls = "Demand" -> DemandConstraints(l)
      [] layer[l].cls = "Transshipment" -> TransshipmentConstraints(l)

\* np.sum(self.ys)
SumYs(l) ==
    LET L == layer[l]
        n == Len(L.ys) IN
    Expr(Concat(LAMBDA i : IF L.ys[i].var THEN <<Term(L.ys[i].v, 1)>> ELSE <<>>, 1, n),
         SumSeq([i \in 1..n |-> IF L.ys[i].var THEN 0 ELSE L.ys[i].val]))

\* truth value of an LpConstraint in "if layer.get_pmin_constraint():"
ConsTruthy(cons) == Len(cons.e.terms) > 0 \/ cons.e.k - cons.rhs # 0

\* ChainLayer.get_pmin_constraint / get_pmax_constraint, as _build_constraints adds them
get_pmin_constraint(l) ==
    IF layer[l].fixed_locs THEN <<>>
    ELSE LET cons == Cons(CName(l, "Pmin", 0), SumYs(l), 1, Get(layer[l].pmin))
         IN IF ConsTruthy(cons) THEN <<cons>> ELSE <<>>

get_pmax_constraint(l) ==
    IF layer[l].fixed_locs THEN <<>>
    ELSE LET cons == Cons(CName(l, "Pmax", 0), SumYs(l), -1, Get(layer[l].pmax))
         IN IF ConsTruthy(cons) THEN <<cons>> ELSE <<>>

\* max(self.constraints[i], 10000000000000000)
LinkM(cons) == IF cons > BigM THEN cons ELSE BigM

\* the exception ChainLayer.get_link_constraints raises
LinkError(l) ==
    LET L == layer[l] IN
    IF L.fixed_locs THEN NoExc
    ELSE IF ~IsSet(L.out_arcs) THEN "AttributeError"
    ELSE IF L.size > 0 /\ Len(get_output_totals(l)) < L.size THEN "IndexError"
    ELSE NoExc

\* ChainLayer.get_link_constraints
get_link_constraints(l) ==
    LET L == layer[l] IN
    IF L.fixed_locs THEN <<>>
    ELSE [i \in 1..L.size |->
            Cons(CName(l, "link", i),
                 AddExpr(get_output_totals(l)[i],
                         IF L.ys[i].var
                         THEN Expr(<<Term(L.ys[i].v, 0 - LinkM(L.constraints[i]))>>, 0)
                         ELSE Expr(<<>>, 0 - LinkM(L.constraints[i]) * L.ys[i].val)),
                 -1, 0)]

\* the exception the body of the loop of _build_constraints raises for layer l
LayerError(l) ==
    IF ConstraintsError(l) # NoExc THEN ConstraintsError(l) ELSE LinkError(l)

\* the constraints the body of the loop of _build_constraints adds for layer l
LayerConstraints(l) ==
    get_constraints(l) \o get_pmin_constraint(l) \o get_pmax_constraint(l)
    \o get_link_constraints(l)

----------------------------------------------------------------------------
(* SupplyChain: building the model and solving it.                         *)

Registered(c) == DOMAIN chain[c].network

\* the (fr, to) pairs of the chain's arc mapping
ArcPairs(c) == {p \in Registered(c) \X Layers : p[2] \in DOMAIN chain[c].network[p[1]]}

\* an LpAffineExpression, as opposed to the number a dot product of numbers gives
IsNumber(e) == e.terms = <<>>

\* the names of the constraints layer.get_constraints() yields
ConstraintNames(l) ==
    IF ConstraintsError(l) # NoExc THEN {}
    ELSE {get_constraints(l)[n].name : n \in 1..Len(get_constraints(l))}

\* prob.addConstraint refuses a name the problem already has: two registered layers
\* yield a constraint of the same name
NameClash(c) ==
    \E l1, l2 \in Registered(c) :
        l1 # l2 /\ ConstraintNames(l1) \cap ConstraintNames(l2) # {}

\* the exceptions _build_constraints may raise: the loop over self.network.keys() stops
\* at the first layer that raises, and the order of the keys is not determined
ConstraintErrors(c) ==
    ({LayerError(l) : l \in Registered(c)} \ {NoExc})
    \cup (IF NameClash(c) THEN {"PulpError"} ELSE {})

\* the exceptions _build_objective may raise (NoExc: it may complete).  The objective
\* of the copied seed is None: None + LpAffineExpression is the expression, None + a
\* number is a TypeError, so with no arc term the first fixed-cost term decides
ObjectiveErrors(c) ==
    LET fc == chain[c].fixed_costs IN
    IF ArcPairs(c) # {} \/ DOMAIN fc = {} THEN {NoExc}
    ELSE {IF IsNumber(fc[l]) THEN "TypeError" ELSE NoExc : l \in DOMAIN fc}

\* what building the model may raise
BuildErrors(c) ==
    IF ConstraintErrors(c) # {} THEN ConstraintErrors(c) ELSE ObjectiveErrors(c)

\* _build_constraints: the constraints of every registered layer
RECURSIVE ConstraintsFrom(_, _)
ConstraintsFrom(c, S) ==
    IF S = {} THEN <<>>
    ELSE LET l == Min(S) IN LayerConstraints(l) \o ConstraintsFrom(c, S \ {l})

build_constraints(c) == ConstraintsFrom(c, Registered(c))

RECURSIVE SumExprs(_, _)
SumExprs(f(_), S) ==
    IF S = {} THEN ZeroExpr
    ELSE LET x == CHOOSE y \in S : TRUE IN AddExpr(f(x), SumExprs(f, S \ {x}))

\* the terms of the arc blocks in the objective
ArcCosts(c) == SumExprs(LAMBDA p : chain[c].network[p[1]][p[2]], ArcPairs(c))

\* the terms of self.fixed_costs in the objective
FixedCosts(c) == SumExprs(LAMBDA l : chain[c].fixed_costs[l], DOMAIN chain[c].fixed_costs)

\* _build_objective: Unset when nothing was added to the seed's objective (None)
build_objective(c) ==
    IF ArcPairs(c) = {} /\ DOMAIN chain[c].fixed_costs = {} THEN Unset
    ELSE Some(AddExpr(ArcCosts(c), FixedCosts(c)))

\* LpVariable(name, 0, None) of connect_layers; LpVariable(.., 0, 1, cat=LpBinary) of
\* ChainLayer.__init__: the upper bound of a variable, Unset for None
UpBound(v) == IF v.t = "y" THEN Some(1) ELSE Unset

----------------------------------------------------------------------------
(* The external solver: prob.solve().  Flow variables take the values      *)
(* 0..FlowLimit, indicators 0..1; the sense is the default LpMinimize.     *)

TermVars(e) == {e.terms[n].v : n \in 1..Len(e.terms)}
ConsVars(cons) == UNION {TermVars(cons[n].e) : n \in 1..Len(cons)}
ObjVars(obj) == IF IsSet(obj) THEN TermVars(Get(obj)) ELSE {}

\* the largest flow the solver is taken to try: the largest capacity or requirement
\* of the layers, and at least FlowMax
FlowLimit ==
    LET S == {FlowMax} \cup UNION {{layer[l].constraints[i] : i \in 1..layer[l].size}
                                      : l \in Layers}
    IN CHOOSE m \in S : \A x \in S : x <= m

Assignments(V) ==
    {a \in [V -> 0..FlowLimit] : \A v \in V : IsSet(UpBound(v)) => a[v] <= Get(UpBound(v))}

Eval(e, a) == e.k + SumSeq([n \in 1..Len(e.terms) |-> e.terms[n].c * a[e.terms[n].v]])

\* rhs = None leaves the constant of the constraint alone
Rhs(con) == IF con.rhs = None THEN 0 ELSE con.rhs

Sat(con, a) ==
    CASE con.sense = -1 -> Eval(con.e, a) <= Rhs(con)
      [] con.sense = 0 -> Eval(con.e, a) = Rhs(con)
      [] con.sense = 1 -> Eval(con.e, a) >= Rhs(con)

Feasible(cons, a) == \A n \in 1..Len(cons) : Sat(cons[n], a)

HasNonFinite(e) == \E n \in 1..Len(e.terms) : e.terms[n].c = Inf

\* the results prob.solve() may leave in the problem: its status and the value of its
\* objective (Unset when the objective is None).  What the solver does with a
\* non-finite coefficient is not defined: any status
SolveOutcomes(cons, obj) ==
    IF IsSet(obj) /\ HasNonFinite(Get(obj))
    THEN {[status |-> s, value |-> Some(NonFinite)] :
            s \in {LpStatusOptimal, LpStatusInfeasible, LpStatusUnbounded, LpStatusUndefined}}
    ELSE LET feas == {a \in Assignments(ConsVars(cons) \cup ObjVars(obj)) : Feasible(cons, a)}
         IN IF feas = {} THEN {[status |-> LpStatusInfeasible, value |-> Unset]}
            ELSE {[status |-> LpStatusOptimal,
                   value |-> IF IsSet(obj) THEN Some(Min({Eval(Get(obj), a) : a \in feas}))
                             ELSE Unset]}

\* self.prob_seed.copy(): LpStatusNotSolved, no objective
SeedCopy == [status |-> 0, value |-> Unset]

\* _solve that never sets self.clean = True
solveStaysDirty(c) ==
    LET C == chain[c] IN
    IF C.clean THEN {[exc |-> NoExc, C |-> C, invoked |-> 0]}
    ELSE {[exc |-> e, C |-> [C EXCEPT !.prob = Some(SeedCopy)], invoked |-> 0] :
            e \in BuildErrors(c) \ {NoExc}}
         \cup
         (IF NoExc \in BuildErrors(c)
          THEN {[exc |-> NoExc, C |-> [C EXCEPT !.prob = Some(r)], invoked |-> 1] :
                  r \in SolveOutcomes(build_constraints(c), build_objective(c))}
          ELSE {})

\* _solve without the early return on a negative status
solveAlwaysClean(c) ==
    LET C == chain[c] IN
    IF C.clean THEN {[exc |-> NoExc, C |-> C, invoked |-> 0]}
    ELSE {[exc |-> e, C |-> [C EXCEPT !.prob = Some(SeedCopy)], invoked |-> 0] :
            e \in BuildErrors(c) \ {NoExc}}
         \cup
         (IF NoExc \in BuildErrors(c)
          THEN {[exc |-> NoExc, C |-> [C EXCEPT !.prob = Some(r), !.clean = TRUE],
                 invoked |-> 1] :
                  r \in SolveOutcomes(build_constraints(c), build_objective(c))}
          ELSE {})

\* SupplyChain._solve: the possible results [exc, C, invoked] of the call on chain c:
\* the exception it raises, the chain after it, the number of solver invocations
solve(c) ==
    LET C == chain[c] IN
    IF C.clean THEN {[exc |-> NoExc, C |-> C, invoked |-> 0]}
    ELSE {[exc |-> e, C |-> [C EXCEPT !.prob = Some(SeedCopy)], invoked |-> 0] :
            e \in BuildErrors(c) \ {NoExc}}
         \cup
         (IF NoExc \in BuildErrors(c)
          THEN {[exc |-> NoExc,
                 C |-> [C EXCEPT !.prob = Some(r), !.clean = ~(r.status < 0)],
                 invoked |-> 1] : r \in SolveOutcomes(build_constraints(c), build_objective(c))}
          ELSE {})

\* one more get_cost call on chain c, with n solver invocations; a call that raises
\* ends the run of calls, and the calls after the first MaxReads are not counted
Counted(c, n, exc) ==
    IF exc # NoExc THEN Touched({c})
    ELSE IF reads[c] >= MaxReads THEN UNCHANGED <<reads, solves>>
    ELSE /\ reads' = [reads EXCEPT ![c] = reads[c] + 1]
         /\ solves' = [solves EXCEPT ![c] = solves[c] + n]

\* what get_cost does after _solve: [exc, ret]
ReadCost(C) ==
    IF ~IsSet(C.prob) THEN [exc |-> "AttributeError", ret |-> Unset]
    ELSE IF Get(C.prob).status < 0 THEN [exc |-> NoExc, ret |-> Unset]
    ELSE IF ~IsSet(Get(C.prob).value) THEN [exc |-> "AttributeError", ret |-> Unset]
    ELSE [exc |-> NoExc, ret |-> Get(C.prob).value]

\* what get_arc_values does after _solve: it iterates over the bound method
\* self.prob.variables, which is a TypeError
ReadArcValues(C) ==
    IF ~IsSet(C.prob) THEN [exc |-> "AttributeError", ret |-> Unset]
    ELSE IF Get(C.prob).status < 0 THEN [exc |-> NoExc, ret |-> Unset]
    ELSE [exc |-> "TypeError", ret |-> Unset]

\* SupplyChain.get_cost
get_cost(c) ==
    \E r \in solve(c) :
        LET out == IF r.exc # NoExc THEN [exc |-> r.exc, ret |-> Unset] ELSE ReadCost(r.C) IN
        /\ chain' = [chain EXCEPT ![c] = r.C]
        /\ Counted(c, r.invoked, out.exc)
        /\ last' = Call("get_cost", c, 0, 0, out.exc, out.ret)
        /\ UNCHANGED layer

\* SupplyChain.get_arc_values
get_arc_values(c) ==
    \E r \in solve(c) :
        LET out == IF r.exc # NoExc THEN [exc |-> r.exc, ret |-> Unset]
                   ELSE ReadArcValues(r.C) IN
        /\ chain' = [chain EXCEPT ![c] = r.C]
        /\ last' = Call("get_arc_values", c, 0, 0, out.exc, out.ret)
        /\ Touched({c})
        /\ UNCHANGED layer

----------------------------------------------------------------------------
(* ChainLayer.set_ys, set_pmin, set_pmax                                   *)

\* the chains whose model a change of layer l changes: those it is registered on
Owners(l) == {c \in Chains : l \in Registered(c)}

\* "raise InvalidYsError": no such name is defined in chain.py, so the raise statement
\* itself raises NameError
InvalidYsError == "NameError"

\* the three checks of set_ys, in order; the third reads self.pmax and self.pmin
YsCheck(l, new_ys) ==
    LET L == layer[l]
        total == SumSeq(new_ys) IN
    IF ~(\A n \in 1..Len(new_ys) : new_ys[n] = 0 \/ new_ys[n] = 1) THEN InvalidYsError
    ELSE IF Len(new_ys) # Len(L.ys) THEN InvalidYsError
    ELSE IF ~IsSet(L.pmax) THEN "AttributeError"
    ELSE IF total > Get(L.pmax) THEN InvalidYsError
    ELSE IF ~IsSet(L.pmin) THEN "AttributeError"
    ELSE IF total < Get(L.pmin) THEN InvalidYsError
    ELSE NoExc

\* ChainLayer.set_ys: after the assignment, self.chain.refresh_layer(self) raises
\* AttributeError (SupplyChain has no refresh_layer; None has none either)
set_ys(l, new_ys) ==
    LET exc == YsCheck(l, new_ys) IN
    /\ layer' = IF exc # NoExc THEN layer
                ELSE [layer EXCEPT ![l].ys = [n \in 1..Len(new_ys) |-> YConst(new_ys[n])]]
    /\ last' = Call("set_ys", 0, l, 0, IF exc # NoExc THEN exc ELSE "AttributeError", Unset)
    /\ IF exc # NoExc THEN UNCHANGED <<reads, solves>> ELSE Touched(Owners(l))
    /\ UNCHANGED chain

\* ChainLayer.set_pmin
set_pmin(l, new_pmin) ==
    /\ layer' = [layer EXCEPT ![l].pmin = Some(new_pmin)]
    /\ last' = Call("set_pmin", 0, l, 0, NoExc, Unset)
    /\ Touched(Owners(l))
    /\ UNCHANGED chain

\* ChainLayer.set_pmax
set_pmax(l, new_pmax) ==
    /\ layer' = [layer EXCEPT ![l].pmax = Some(new_pmax)]
    /\ last' = Call("set_pmax", 0, l, 0, NoExc, Unset)
    /\ Touched(Owners(l))
    /\ UNCHANGED chain

----------------------------------------------------------------------------
(* The calls, with the inputs they are given.                              *)

ConnectPairs == {p \in Layers \X Layers : p[1] < p[2]}
CostChoices == { <<<<1>>, <<2>>>>, <<<<1>>>> }
YsChoices == { <<1, 0>>, <<1, 1>>, <<0, 0>>, <<2, 0>>, <<1>> }
PminChoices == {0}
PmaxChoices == {1}
Selectable == {l \in Layers : ~layer[l].fixed_locs}

AddLayer == \E c \in Chains, l \in Layers : add_layer(c, l)
RemoveLayer == \E c \in Chains, l \in Layers : remove_layer(c, l)
ConnectWith(CS) ==
    \E c \in Chains, p \in ConnectPairs, costs \in CS :
        connect_layers(c, p[1], p[2], costs)
ConnectLayers == ConnectWith(CostChoices)
GetCost == \E c \in Chains : get_cost(c)
GetArcValues == \E c \in Chains : get_arc_values(c)
SetYs == \E l \in Selectable, new_ys \in YsChoices : set_ys(l, new_ys)
SetPmin == \E l \in Selectable, v \in PminChoices : set_pmin(l, v)
SetPmax == \E l \in Selectable, v \in PmaxChoices : set_pmax(l, v)

\* the layers of the specifications: a two-node Supply layer with selectable
\* locations (as the NERD2 example of tutorial.py), a capped one-node Transshipment
\* layer, a one-node Demand layer
SupplyS(l) == NewLayer("Supply", l, "S_", <<1, 1>>, FALSE, 1, Unset, Some(<<1, 1>>))
TransT(l) == NewLayer("Transshipment", l, "T_", <<1>>, TRUE, 0, Unset, Unset)
DemandD(l) == NewLayer("Demand", l, "D_", <<2>>, TRUE, 0, Unset, Unset)

InitChains ==
    /\ chain = [c \in 1..1 |-> NewChain("sc")]
    /\ reads = [c \in 1..1 |-> 0]
    /\ solves = [c \in 1..1 |-> 0]
    /\ last = Call("init", 0, 0, 0, NoExc, Unset)

----------------------------------------------------------------------------
(* Spec: the graph operations and the reads of one chain over a Supply, a  *)
(* Transshipment and a Demand layer.                                       *)

Init ==
    /\ layer = [l \in 1..3 |-> CASE l = 1 -> SupplyS(l) [] l = 2 -> TransT(l)
                                 [] l = 3 -> DemandD(l)]
    /\ InitChains

Next ==
    \/ AddLayer
    \/ RemoveLayer
    \/ ConnectLayers
    \/ GetCost
    \/ GetArcValues

Spec == Init /\ [][Next]_vars

----------------------------------------------------------------------------
(* SpecSel: the same operations and the setters of the layers (set_ys,     *)
(* set_pmin, set_pmax) over the Supply and the Demand layer.               *)

InitSel ==
    /\ layer = [l \in 1..2 |-> CASE l = 1 -> SupplyS(l) [] l = 2 -> DemandD(l)]
    /\ InitChains

NextSel ==
    \/ AddLayer
    \/ RemoveLayer
    \/ ConnectLayers
    \/ GetCost
    \/ GetArcValues
    \/ SetYs
    \/ SetPmin
    \/ SetPmax

SpecSel == InitSel /\ [][NextSel]_vars

----------------------------------------------------------------------------
(* SpecCosts: a two-node Supply layer and a three-node Demand layer,       *)
(* connected with cost matrices of any shape, one of them with an          *)
(* infinite cost.                                                          *)

MaxRows == 3
MaxCols == 3

Ones(r, k) == [i \in 1..r |-> [j \in 1..k |-> 1]]
ShapeChoices ==
    {Ones(r, k) : r \in 1..MaxRows, k \in 2..MaxCols} \cup {<<<<1, 1, 1>>, <<1, Inf, 1>>>>}
ConnectShapes == ConnectWith(ShapeChoices)

Supply2(l) == NewLayer("Supply", l, "S_", <<2, 2>>, TRUE, 0, Unset, Unset)
Demand3(l) == NewLayer("Demand", l, "D_", <<1, 1, 1>>, TRUE, 0, Unset, Unset)

InitCosts ==
    /\ layer = [l \in 1..2 |-> CASE l = 1 -> Supply2(l) [] l = 2 -> Demand3(l)]
    /\ InitChains

NextCosts ==
    \/ AddLayer
    \/ RemoveLayer
    \/ ConnectShapes
    \/ GetCost
    \/ GetArcValues

SpecCosts == InitCosts /\ [][NextCosts]_vars

----------------------------------------------------------------------------
(* SpecT: a one-node Supply layer, a two-node Transshipment layer whose    *)
(* caps are None, 0 or positive, and a one-node Demand layer.              *)

TransCaps == {<<None, 0>>, <<1, None>>, <<0, 1>>, <<2, 2>>}
TransCosts == {Ones(1, 2), Ones(2, 1)}
ConnectTrans == ConnectWith(TransCosts)

Supply1(l) == NewLayer("Supply", l, "S_", <<2>>, TRUE, 0, Unset, Unset)
Trans2(l, caps) == NewLayer("Transshipment", l, "T_", caps, TRUE, 0, Unset, Unset)

InitT ==
    /\ \E caps \in TransCaps :
          layer = [l \in 1..3 |-> CASE l = 1 -> Supply1(l) [] l = 2 -> Trans2(l, caps)
                                     [] l = 3 -> DemandD(l)]
    /\ InitChains

NextT ==
    \/ AddLayer
    \/ ConnectTrans
    \/ GetCost

SpecT == InitT /\ [][NextT]_vars

----------------------------------------------------------------------------
(* SpecNames: two Supply layers constructed with the same name, and a      *)
(* Demand layer, on one chain.                                             *)

NameCosts == {Ones(1, 1)}
ConnectNamed == ConnectWith(NameCosts)

SupplyA(l) == NewLayer("Supply", l, "S_", <<2>>, TRUE, 0, Unset, Unset)
SupplyB(l) == NewLayer("Supply", l, "S_", <<1>>, TRUE, 0, Unset, Unset)

InitNames ==
    /\ layer = [l \in 1..3 |-> CASE l = 1 -> SupplyA(l) [] l = 2 -> SupplyB(l)
                                 [] l = 3 -> DemandD(l)]
    /\ InitChains

NextNames ==
    \/ AddLayer
    \/ RemoveLayer
    \/ ConnectNamed
    \/ GetCost

SpecNames == InitNames /\ [][NextNames]_vars

----------------------------------------------------------------------------
(* SpecTransport: the pure transportation instance: Supply capacities      *)
(* [10, 10], Demand requirements [5, 5], costs [[1, 4], [4, 1]].           *)

TransportCosts == {<<<<1, 4>>, <<4, 1>>>>}
ConnectTransport == ConnectWith(TransportCosts)

Supply10(l) == NewLayer("Supply", l, "S_", <<10, 10>>, TRUE, 0, Unset, Unset)
Demand5(l) == NewLayer("Demand", l, "D_", <<5, 5>>, TRUE, 0, Unset, Unset)

InitTransport ==
    /\ layer = [l \in 1..2 |-> CASE l = 1 -> Supply10(l) [] l = 2 -> Demand5(l)]
    /\ InitChains

NextTransport ==
    \/ AddLayer
    \/ RemoveLayer
    \/ ConnectTransport
    \/ GetCost

SpecTransport == InitTransport /\ [][NextTransport]_vars

----------------------------------------------------------------------------
(* SpecChains: two chains that are given the same Supply and Demand layer. *)

InitChains2 ==
    /\ chain = [c \in 1..2 |-> NewChain(IF c = 1 THEN "sc" ELSE "sc2")]
    /\ reads = [c \in 1..2 |-> 0]
    /\ solves = [c \in 1..2 |-> 0]
    /\ last = Call("init", 0, 0, 0, NoExc, Unset)

InitShared ==
    /\ layer = [l \in 1..2 |-> CASE l = 1 -> SupplyA(l) [] l = 2 -> DemandD(l)]
    /\ InitChains2

NextShared ==
    \/ AddLayer
    \/ RemoveLayer
    \/ ConnectNamed
    \/ GetCost

SpecChains == InitShared /\ [][NextShared]_vars

----------------------------------------------------------------------------
(* Properties of the build-and-solve lifecycle.                            *)

Status(c) == Get(chain[c].prob).status

\* C1, as stated: two consecutive get_cost() calls on a chain that is not modified
\* between them invoke the solver at most once, whatever the state of the chain.
C1_SolvedAtMostOnce == \A c \in Chains : solves[c] <= 1

\* C1, amended: a get_cost() call that follows a get_cost() call which invoked the
\* solver, on a chain not modified in between, invokes the solver again only if that
\* solve ended with a negative status (the chain was left dirty); after a successful
\* solve the second call invokes no solver.
C1_SecondSolveOnlyAfterFailure ==
    [][\A c \in Chains :
          (solves'[c] > solves[c] /\ solves[c] >= 1)
              => (IsSet(chain[c].prob) /\ Status(c) < 0 /\ ~chain[c].clean)]_vars

\* two get_cost() calls in a row, the first solved the model, the second did not
C1_Witness ==
    \E c \in Chains :
        /\ reads[c] = 2 /\ solves[c] = 1 /\ chain[c].clean
        /\ last.op = "get_cost" /\ last.chain = c /\ last.ret # Unset

\* C2, as stated: every mutating call (add_layer, remove_layer, connect_layers, set_ys)
\* leaves the chain that owns the layer dirty, so that the next read solves again.
C2_MutationLeavesDirty ==
    [][/\ (\/ last'.op \in {"add_layer", "remove_layer"}
           \/ (last'.op = "connect_layers" /\ last'.exc = NoExc))
          => ~chain'[last'.chain].clean
       /\ (last'.op = "set_ys" /\ layer' # layer /\ IsSet(layer[last'.layer].chain))
          => ~chain'[Get(layer[last'.layer].chain)].clean]_vars

\* C3: when the solver reports a negative status the chain stays dirty and get_cost()
\* and get_arc_values() return None; a read returns a value only from a chain that a
\* successful solve left clean.
C3_FailedSolveIsAbsent ==
    \A c \in Chains :
        /\ (IsSet(chain[c].prob) /\ Status(c) < 0) => ~chain[c].clean
        /\ (last.op \in {"get_cost", "get_arc_values"} /\ last.chain = c /\ last.exc = NoExc)
              => (IsSet(chain[c].prob) /\ (last.ret = Unset <=> Status(c) < 0))
        /\ (last.chain = c /\ last.ret # Unset)
              => (chain[c].clean /\ Status(c) >= 0 /\ last.ret = Get(chain[c].prob).value)

\* get_cost() has returned None for an infeasible model, and the chain is dirty
C3_Witness ==
    \E c \in Chains :
        /\ last.op = "get_cost" /\ last.chain = c /\ last.exc = NoExc /\ last.ret = Unset
        /\ Status(c) = LpStatusInfeasible /\ ~chain[c].clean /\ solves[c] >= 1

----------------------------------------------------------------------------
(* Properties of the graph operations.                                     *)

\* C4: connect_layers(fr, to, costs) with fr or to not registered on the chain raises
\* LayerNotAttached and changes nothing: the arc and cost maps, the layers' arc
\* references and the dirty flag keep their values.
C4_UnattachedConnectChangesNothing ==
    [][(/\ last'.op = "connect_layers"
        /\ (last'.layer \notin Registered(last'.chain) \/ last'.to \notin Registered(last'.chain)))
          => (last'.exc = "LayerNotAttached" /\ layer' = layer /\ chain' = chain)]_vars

\* a connect to a layer that is not registered was refused on a chain that has arcs
C4_Witness ==
    /\ last.op = "connect_layers" /\ last.exc = "LayerNotAttached"
    /\ last.layer \in Registered(last.chain) /\ last.to \notin Registered(last.chain)
    /\ ArcPairs(last.chain) # {}

----------------------------------------------------------------------------
(* Properties of set_ys.                                                   *)

\* C6, as stated: set_ys accepts an assignment only if it is binary, of the layer's
\* size and with an open count in [pmin, pmax]; a call that returns leaves
\* pmin <= sum(ys) <= pmax, and a call that raises raises the invalid-assignment
\* error and leaves the layers and the chains unchanged.
C6_RejectedLeavesUnchanged ==
    [][last'.op = "set_ys" =>
          LET L == layer'[last'.layer]
              total == SumSeq([n \in 1..Len(L.ys) |-> L.ys[n].val]) IN
          IF last'.exc = NoExc
          THEN /\ \A n \in 1..Len(L.ys) : ~L.ys[n].var /\ L.ys[n].val \in {0, 1}
               /\ Len(L.ys) = L.size
               /\ Get(L.pmin) <= total /\ total <= Get(L.pmax)
          ELSE last'.exc = InvalidYsError /\ layer' = layer /\ chain' = chain]_vars

----------------------------------------------------------------------------
(* Properties of the compiled model.                                       *)

\* the shape of the arc block of (fr, to) on chain c
Shape(c, fr, to) == <<chain[c].variables[fr][to].rows, chain[c].variables[fr][to].cols>>

\* the arcs of layer l do not match its size
Mismatched(l) ==
    \/ layer[l].cls = "Supply" /\ IsSet(layer[l].out_arcs)
          /\ Get(layer[l].out_arcs).rows # layer[l].size
    \/ layer[l].cls = "Demand" /\ IsSet(layer[l].in_arcs)
          /\ Get(layer[l].in_arcs).cols # layer[l].size

\* every registered layer of chain c has been connected
AllConnected(c) ==
    \A l \in Registered(c) :
        /\ layer[l].cls = "Supply" => IsSet(layer[l].out_arcs)
        /\ layer[l].cls = "Demand" => IsSet(layer[l].in_arcs)

\* C5, as stated: a connect_layers call between a Supply layer of size m and a Demand
\* layer of size n succeeds only with a cost matrix of shape m x n; any other shape
\* makes the call fail (with DimensionMismatch).
C5_ConnectRejectsWrongShape ==
    [][(last'.op = "connect_layers" /\ last'.exc = NoExc)
          => LET arcs == chain'[last'.chain].variables[last'.layer][last'.to] IN
             <<arcs.rows, arcs.cols>> = <<layer[last'.layer].size, layer[last'.to].size>>]_vars

\* C5, amended: connect_layers checks no shape: between registered layers it succeeds
\* with a cost matrix of any shape and leaves the chain dirty.  The mismatch is raised
\* as DimensionMismatch by the next get_cost() or get_arc_values(), while the
\* constraints are generated: the solver is not invoked, the problem is the unsolved
\* copy of the seed and the chain stays dirty.
C5_MismatchRaisedByRead ==
    [][/\ (/\ last'.op = "connect_layers"
           /\ last'.layer \in Registered(last'.chain) /\ last'.to \in Registered(last'.chain))
          => (/\ last'.exc = NoExc /\ ~chain'[last'.chain].clean
              /\ last'.to \in DOMAIN chain'[last'.chain].variables[last'.layer])
       /\ (/\ last'.op \in {"get_cost", "get_arc_values"}
           /\ ~chain[last'.chain].clean /\ AllConnected(last'.chain)
           /\ \E l \in Registered(last'.chain) : Mismatched(l))
          => (/\ last'.exc = "DimensionMismatch" /\ ~chain'[last'.chain].clean
              /\ chain'[last'.chain].prob = Some(SeedCopy)
              /\ solves'[last'.chain] = 0)]_vars

\* get_cost() has raised DimensionMismatch on a chain whose Supply and Demand layers
\* are connected by a block with the two rows of the Supply layer and two columns
C5_Witness ==
    /\ last.op = "get_cost" /\ last.exc = "DimensionMismatch"
    /\ Registered(last.chain) = {1, 2} /\ 2 \in DOMAIN chain[last.chain].variables[1]
    /\ Shape(last.chain, 1, 2) = <<2, 2>>
    /\ Get(layer[2].in_arcs) = chain[last.chain].variables[1][2]

\* the flow variables of the arc blocks of chain c
ChainArcVars(c) ==
    UNION {UNION {{XVar(chain[c].variables[fr][to], i, j) :
                        i \in 1..chain[c].variables[fr][to].rows,
                        j \in 1..chain[c].variables[fr][to].cols}
                    : to \in DOMAIN chain[c].variables[fr]} : fr \in DOMAIN chain[c].variables}

\* the flow leaving node i of layer l, entering node j of layer l, on the chain's arcs
Outflow(c, l, i, a) ==
    LET V == {v \in ChainArcVars(c) : v.fr = l /\ v.i = i} IN
    IF V = {} THEN 0
    ELSE LET vs == CHOOSE q \in [1..Cardinality(V) -> V] : \A v \in V : \E n \in DOMAIN q : q[n] = v
         IN SumSeq([n \in 1..Cardinality(V) |-> a[vs[n]]])
Inflow(c, l, j, a) ==
    LET V == {v \in ChainArcVars(c) : v.to = l /\ v.j = j} IN
    IF V = {} THEN 0
    ELSE LET vs == CHOOSE q \in [1..Cardinality(V) -> V] : \A v \in V : \E n \in DOMAIN q : q[n] = v
         IN SumSeq([n \in 1..Cardinality(V) |-> a[vs[n]]])

\* C7, as stated: in every solution that satisfies the model the chain builds, the
\* flow leaving a node of a registered Supply layer on the chain's arcs is at most its
\* capacity and the flow entering a node of a registered Demand layer on the chain's
\* arcs is at least its requirement, after any sequence of add_layer, connect_layers
\* and remove_layer calls.
C7_BoundsOnChainArcs ==
    \A c \in Chains :
        NoExc \in BuildErrors(c) =>
            \A a \in Assignments(ConsVars(build_constraints(c)) \cup ChainArcVars(c)) :
                Feasible(build_constraints(c), a) =>
                    \A l \in Registered(c) : \A i \in 1..layer[l].size :
                        /\ layer[l].cls = "Supply"
                              => Outflow(c, l, i, a) <= layer[l].constraints[i]
                        /\ layer[l].cls = "Demand"
                              => Inflow(c, l, i, a) >= layer[l].constraints[i]

\* C8, as stated: the constraints of a Transshipment layer are, for every node i, the
\* equality inputTotal[i] - outputTotal[i] = 0 and, exactly for the nodes whose
\* constraints[i] is not None (a cap of 0 included), the cap
\* inputTotal[i] <= constraints[i].
C8_CapForEveryEntryButNone ==
    \A l \in Layers :
        (layer[l].cls = "Transshipment" /\ ConstraintsError(l) = NoExc) =>
            LET cs == get_constraints(l) IN
            \A i \in 1..layer[l].size :
                /\ \E n \in 1..Len(cs) :
                       /\ cs[n].sense = 0 /\ cs[n].rhs = 0
                       /\ cs[n].e = AddExpr(get_input_totals(l)[i],
                                            NegExpr(get_output_totals(l)[i]))
                /\ layer[l].constraints[i] # None
                      <=> \E n \in 1..Len(cs) :
                              /\ cs[n].sense = -1 /\ cs[n].rhs = layer[l].constraints[i]
                              /\ cs[n].e = get_input_totals(l)[i]

\* C9, as stated: in the model the chain submits to the solver every flow variable of
\* a cell with an infinite cost has the upper bound zero, and the objective has no
\* non-finite coefficient.
C9_InfiniteCostClosesArc ==
    \A c \in Chains :
        (NoExc \in BuildErrors(c) /\ IsSet(build_objective(c))) =>
            /\ \A fr \in DOMAIN chain[c].network : \A to \in DOMAIN chain[c].network[fr] :
                  \A n \in 1..Len(chain[c].network[fr][to].terms) :
                      chain[c].network[fr][to].terms[n].c = Inf
                          => UpBound(chain[c].network[fr][to].terms[n].v) = Some(0)
            /\ ~HasNonFinite(Get(build_objective(c)))

----------------------------------------------------------------------------
(* Properties of the registry.                                             *)

\* C11, as stated: the registry of a chain is keyed by layer name: no two registered
\* layers have the same name, and add_layer of a layer whose name is registered
\* replaces the earlier entry.
C11_RegistryKeyedByName ==
    \A c \in Chains : \A l1, l2 \in Registered(c) :
        layer[l1].name = layer[l2].name => l1 = l2

----------------------------------------------------------------------------
(* Properties of the optimum.                                              *)

\* the assignments of the built model of chain c that satisfy its constraints
FeasibleSet(c) ==
    {a \in Assignments(ConsVars(build_constraints(c)) \cup ObjVars(build_objective(c))) :
        Feasible(build_constraints(c), a)}

\* the Supply layer 1 and the Demand layer 2 are registered on chain c and joined by
\* one block, the block of the chain and of both layers
Joined(c) ==
    /\ Registered(c) = {1, 2}
    /\ ArcPairs(c) = {<<1, 2>>}
    /\ layer[1].out_arcs = Some(chain[c].variables[1][2])
    /\ layer[2].in_arcs = Some(chain[c].variables[1][2])

\* C12: for Supply capacities [10, 10], Demand requirements [5, 5] and costs
\* [[1, 4], [4, 1]] the minimum of the built model is 10, it is reached only with 5
\* units on node1->node1 and on node2->node2 and no flow on the cross arcs, and it is
\* the value get_cost() returns.
C12_TransportOptimum ==
    \A c \in Chains :
        Joined(c) =>
            LET b == chain[c].variables[1][2]
                obj == Get(build_objective(c))
                best == Min({Eval(obj, a) : a \in FeasibleSet(c)}) IN
            /\ BuildErrors(c) = {NoExc}
            /\ best = 10
            /\ \A a \in FeasibleSet(c) :
                  Eval(obj, a) = best
                      => /\ a[XVar(b, 1, 1)] = 5 /\ a[XVar(b, 2, 2)] = 5
                         /\ a[XVar(b, 1, 2)] = 0 /\ a[XVar(b, 2, 1)] = 0
            /\ (last.op = "get_cost" /\ last.chain = c) => last.ret = Some(10)

\* get_cost() has returned 10 for the connected instance
C12_Witness ==
    \E c \in Chains :
        /\ Joined(c) /\ last.op = "get_cost" /\ last.chain = c /\ last.exc = NoExc
        /\ last.ret = Some(10) /\ chain[c].clean /\ solves[c] = 1

----------------------------------------------------------------------------
(* Properties of the arc blocks and of the model built from them.          *)

\* the flow variables of the built model of chain c
ModelFlowVars(c) ==
    {v \in ConsVars(build_constraints(c)) \cup ObjVars(build_objective(c)) : v.t = "x"}

\* C13, as stated: each registered layer is the source of at most one arc block and
\* the destination of at most one arc block of the chain, and these blocks are the
\* ones the layer holds as its out-arcs and its in-arcs.
C13_OneBlockPerDirection ==
    \A c \in Chains : \A l \in Registered(c) :
        /\ Cardinality({p \in ArcPairs(c) : p[1] = l}) <= 1
        /\ Cardinality({p \in ArcPairs(c) : p[2] = l}) <= 1
        /\ \A p \in ArcPairs(c) :
              /\ p[1] = l => layer[l].out_arcs = Some(chain[c].variables[p[1]][p[2]])
              /\ p[2] = l => layer[l].in_arcs = Some(chain[c].variables[p[1]][p[2]])

\* C14, as stated: every flow variable of a constraint or of the objective of the
\* model a chain builds belongs to an arc block of the chain's arc mapping: no
\* variable of a removed or replaced block is left in the model.
C14_ModelOfCurrentGraph ==
    \A c \in Chains :
        NoExc \in BuildErrors(c) => ModelFlowVars(c) \subseteq ChainArcVars(c)

\* C16, as stated: a layer contributes the cardinality constraints pmin <= sum(ys) and
\* sum(ys) <= pmax and one link constraint per node if and only if its location is
\* selectable, and in every solution of the built model a node whose indicator is 0
\* has no outflow on the chain's arcs.
C16_ClosedNodeShipsNothing ==
    \A c \in Chains :
        NoExc \in BuildErrors(c) =>
            /\ \A l \in Registered(c) :
                  IF layer[l].fixed_locs
                  THEN LayerConstraints(l) = get_constraints(l)
                  ELSE /\ Len(get_pmin_constraint(l)) = 1 /\ Len(get_pmax_constraint(l)) = 1
                       /\ get_pmin_constraint(l)[1].sense = 1
                       /\ get_pmin_constraint(l)[1].rhs = Get(layer[l].pmin)
                       /\ get_pmax_constraint(l)[1].sense = -1
                       /\ get_pmax_constraint(l)[1].rhs = Get(layer[l].pmax)
                       /\ Len(get_link_constraints(l)) = layer[l].size
            /\ \A a \in Assignments(ConsVars(build_constraints(c)) \cup ChainArcVars(c)) :
                  Feasible(build_constraints(c), a) =>
                      \A l \in Registered(c) : \A i \in 1..layer[l].size :
                          (~layer[l].fixed_locs /\ layer[l].ys[i].var /\ a[layer[l].ys[i].v] = 0)
                              => Outflow(c, l, i, a) = 0

\* C15, as stated: the objective of the built model is the sum of the cost terms of
\* the chain's arc blocks and, for every registered layer, of fixedCosts . ys with the
\* ys the layer has now.
C15_FixedCostsOfCurrentYs ==
    \A c \in Chains :
        IsSet(build_objective(c)) =>
            Get(build_objective(c))
                = AddExpr(ArcCosts(c), SumExprs(get_fixed_costs, Registered(c)))

----------------------------------------------------------------------------
(* Properties of the chain's maps and of its cache.                        *)

C19_CleanHasResult ==
    \A c \in Chains :
        chain[c].clean
            => (/\ IsSet(chain[c].prob) /\ Status(c) >= 0
                /\ IsSet(Get(chain[c].prob).value))


\* C17, as stated: a layer is registered on at most one chain, the chain it records as
\* its owner, so that a call on one chain never changes the model of another chain
\* that stays clean.
C17_OneChainPerLayer ==
    \A l \in Layers :
        /\ Cardinality(Owners(l)) <= 1
        /\ \A c \in Owners(l) : layer[l].chain = Some(c)

====
